---- MODULE Spec2Model ----
(***************************************************************************)
(* Token lifecycle of the lmi CLI (src/src/lmi/auth.py): the file token    *)
(* cache, the OAuth2 grants, get_token, the PKCE loopback flow and the     *)
(* retry-once policy of AuthenticatedClient.request.                       *)
(***************************************************************************)
EXTENDS Integers, Sequences, FiniteSets, TLC

VARIABLES
    now,               \* time.time(), in seconds
    cacheDir,          \* condition of TOKEN_CACHE_DIR on this machine
    cache,             \* env name -> content of TOKEN_CACHE_DIR/<env>.json
    config,            \* the configuration dictionary handed to the core
    serial,            \* number of access tokens the issuer has issued
    ops,               \* operations started so far
    client,            \* the AuthenticatedClient object, if constructed
    last,              \* what the most recent call did and how it ended
    pc,                \* position of the caller inside _acquire_pkce_token
    call,              \* the get_token call that is driving the PKCE flow
    listener,          \* the loopback HTTPServer socket
    serving,           \* TRUE while the serve_forever thread runs
    handler_instance,  \* the closure variable of _acquire_pkce_token
    waiting_on,        \* the handler whose done event the caller waits on
    callbacks,         \* number of requests the listener has handled in this flow
    seen,              \* the handlers the caller has read from handler_instance
    stray,             \* TRUE while the serve loop holds a connection that sends nothing
    procs,             \* two CLI processes that save a token for one environment
    log,               \* the secrets of the login that the log records hold
    probe,             \* one token, one clock reading and what its methods gave
    keyring            \* the keyring entry lmi-cli-sso / sso-tokens

vars == <<now, cacheDir, cache, config, serial, ops, client, last, pc, call,
          listener, serving, handler_instance, waiting_on, callbacks, seen,
          stray, procs, log, probe, keyring>>

\* The state of the parts of the program that the operations of one process
\* on the file cache take no part in.
OtherVars == <<procs, log, probe, keyring>>

----------------------------------------------------------------------------
(* Bounds of the model *)

MaxTime == 1
MaxOps == 2
MaxCallbacks == 2
MaxExpiry == 2
MaxRefreshes == 2

(* Program constants *)

DefaultExpiresIn == 3600
CallbackTimeout == 300

Envs == {"dev", "prod"}

----------------------------------------------------------------------------
(* AuthToken *)

None == "<None>"
NoTime == -1

AuthToken(access, expires, ttype, refresh, id, issued) ==
    [access_token |-> access, expires_at |-> expires, token_type |-> ttype,
     refresh_token |-> refresh, id_token |-> id, issued_at |-> issued]

NoToken == [absent |-> TRUE]

\* No token is under examination.
NoProbe == [step |-> "none"]

IsToken(x) == "access_token" \in DOMAIN x

Truthy(s) == s # None /\ s # ""

Get(d, k, default) == IF k \in DOMAIN d THEN d[k] ELSE default

\* from_dict without line 44: the dataclass then gets no issued_at from the
\* record.
from_dict_without_issued_at(data) ==
    AuthToken(data["access_token"],
              Get(data, "expires_at", 0),
              Get(data, "token_type", "Bearer"),
              Get(data, "refresh_token", None),
              Get(data, "id_token", None),
              NoTime)

from_dict(data) ==
    AuthToken(data["access_token"],
              Get(data, "expires_at", 0),
              Get(data, "token_type", "Bearer"),
              Get(data, "refresh_token", None),
              Get(data, "id_token", None),
              Get(data, "issued_at", NoTime))

to_dict(t) ==
    [access_token |-> t.access_token, expires_at |-> t.expires_at,
     token_type |-> t.token_type, refresh_token |-> t.refresh_token,
     id_token |-> t.id_token, issued_at |-> t.issued_at]

is_expired_strict(t, time) == time > t.expires_at

is_expired(t, time) == time >= t.expires_at

ExpiredSentinel_fresh(time) ==
    AuthToken("", time + DefaultExpiresIn, "Bearer", None, None, time)

ExpiredSentinel(time) == AuthToken("", 0, "Bearer", None, None, time)

----------------------------------------------------------------------------
(* SSOToken, sso.py *)

SSOToken(access, refresh, id, expires, ttype) ==
    [access_token |-> access, refresh_token |-> refresh, id_token |-> id,
     expires_at |-> expires, token_type |-> ttype]

SSOToken_from_dict(data) ==
    SSOToken(data["access_token"],
             Get(data, "refresh_token", None),
             Get(data, "id_token", None),
             data["expires_at"],
             Get(data, "token_type", "Bearer"))

SSOToken_to_dict(t) ==
    [access_token |-> t.access_token, refresh_token |-> t.refresh_token,
     id_token |-> t.id_token, expires_at |-> t.expires_at,
     token_type |-> t.token_type]

SSOToken_is_expired(t, time) == time >= t.expires_at

----------------------------------------------------------------------------
(* The file cache *)

NoFile == [kind |-> "absent"]
Garbage == [kind |-> "corrupt"]
JsonFile(d) == [kind |-> "json", data |-> d]

\* A file of valid JSON that lacks the access_token from_dict requires.
Incomplete == JsonFile([refresh_token |-> "rt"])

\* Lines 72-73: json.load and AuthToken.from_dict go through.
Decodes(file) == file.kind = "json" /\ "access_token" \in DOMAIN file.data

\* get_token_cache_path: mkdir(parents=True, exist_ok=True) raises when the
\* directory is missing and cannot be created.
get_token_cache_path_raises(dir) == dir = "uncreatable"

\* load_cached_token at time `time`: [raised, token].
load_cached_token_unguarded(dir, file, time) ==
    IF get_token_cache_path_raises(dir)
    THEN [raised |-> TRUE, token |-> NoToken]
    ELSE IF file.kind # "absent" /\ ~Decodes(file)
    THEN [raised |-> TRUE, token |-> NoToken]
    ELSE IF Decodes(file) /\ ~is_expired(from_dict(file.data), time)
         THEN [raised |-> FALSE, token |-> from_dict(file.data)]
         ELSE [raised |-> FALSE, token |-> NoToken]

load_cached_token(dir, file, time) ==
    IF get_token_cache_path_raises(dir)
    THEN [raised |-> TRUE, token |-> NoToken]
    ELSE IF Decodes(file) /\ ~is_expired(from_dict(file.data), time)
         THEN [raised |-> FALSE, token |-> from_dict(file.data)]
         ELSE [raised |-> FALSE, token |-> NoToken]

\* What a write to the cache can do: it succeeds, or open() raises (a full
\* disk, a lost permission); in a directory that cannot be created it raises.
WriteOutcomes(dir) == IF dir = "ok" THEN {"written", "raises"} ELSE {"raises"}

\* A save that writes into the record it finds: a refresh token the new token
\* lacks keeps the value the file had.
save_token_merging(dir, c, env, token, w) ==
    IF ~get_token_cache_path_raises(dir) /\ w = "written"
    THEN [raised |-> FALSE,
          cache |-> [c EXCEPT ![env] =
                       IF c[env].kind = "json"
                       THEN JsonFile([to_dict(token) EXCEPT
                                        !.refresh_token =
                                           IF @ = None
                                           THEN Get(c[env].data,
                                                    "refresh_token", None)
                                           ELSE @])
                       ELSE JsonFile(to_dict(token))]]
    ELSE [raised |-> TRUE, cache |-> c]

\* save_token with the outcome `w` of its write: [raised, cache].
save_token(dir, c, env, token, w) ==
    IF ~get_token_cache_path_raises(dir) /\ w = "written"
    THEN [raised |-> FALSE, cache |-> [c EXCEPT ![env] = JsonFile(to_dict(token))]]
    ELSE [raised |-> TRUE, cache |-> c]

----------------------------------------------------------------------------
(* The token endpoint *)

AccessNames == <<"at1", "at2", "at3", "at4", "at5", "at6", "at7", "at8">>

Rejected == [status |-> 400, body |-> <<>>]
Malformed == [status |-> 200, body |-> <<>>]

\* What the issuer may answer to the n-th successful exchange.
Issued(n) ==
    { [status |-> 200, body |-> [access_token |-> AccessNames[n]] @@ e @@ r] :
        e \in {<<>>, [expires_in |-> 1]},
        r \in {<<>>, [refresh_token |-> "rt"]} }

Responses(n) == {Rejected, Malformed} \cup Issued(n)

HasKeys(cfg, keys) == keys \subseteq cfg.keys

\* A token built from the response alone.
TokenFromResponse_alone(body, time, old_refresh, old_id) ==
    AuthToken(body["access_token"],
              time + Get(body, "expires_in", DefaultExpiresIn),
              Get(body, "token_type", "Bearer"),
              Get(body, "refresh_token", None),
              Get(body, "id_token", None),
              time)

\* The AuthToken built from a 2xx token response at time `time`.
TokenFromResponse(body, time, old_refresh, old_id) ==
    AuthToken(body["access_token"],
              time + Get(body, "expires_in", DefaultExpiresIn),
              Get(body, "token_type", "Bearer"),
              Get(body, "refresh_token", old_refresh),
              Get(body, "id_token", old_id),
              time)

\* _refresh_auth_token: [raised, posts, token].
_refresh_auth_token(token, cfg, resp, time) ==
    IF ~Truthy(token.refresh_token)
    THEN [raised |-> TRUE, posts |-> 0, token |-> NoToken]
    ELSE IF ~HasKeys(cfg, {"OAUTH_CLIENT_ID", "OAUTH_CLIENT_SECRET", "OAUTH_TOKEN_URL"})
    THEN [raised |-> TRUE, posts |-> 0, token |-> NoToken]
    ELSE IF resp.status # 200 \/ "access_token" \notin DOMAIN resp.body
    THEN [raised |-> TRUE, posts |-> 1, token |-> NoToken]
    ELSE [raised |-> FALSE, posts |-> 1,
          token |-> TokenFromResponse(resp.body, time, token.refresh_token, token.id_token)]

GrantKeys(grant) ==
    IF grant = "client_credentials"
    THEN {"OAUTH_CLIENT_ID", "OAUTH_CLIENT_SECRET", "OAUTH_TOKEN_URL"}
    ELSE {"OAUTH_CLIENT_ID", "OAUTH_CLIENT_SECRET", "OAUTH_USERNAME",
          "OAUTH_PASSWORD", "OAUTH_TOKEN_URL"}

\* acquire_token for the grants that need no browser: [raised, posts, token].
acquire_token_any_grant(cfg, grant, resp, time) ==
    IF ~HasKeys(cfg, GrantKeys(grant))
    THEN [raised |-> TRUE, posts |-> 0, token |-> NoToken]
    ELSE IF resp.status # 200 \/ "access_token" \notin DOMAIN resp.body
    THEN [raised |-> TRUE, posts |-> 1, token |-> NoToken]
    ELSE [raised |-> FALSE, posts |-> 1,
          token |-> TokenFromResponse(resp.body, time, None, None)]

acquire_token(cfg, grant, resp, time) ==
    IF grant \notin {"client_credentials", "password"}
    THEN [raised |-> TRUE, posts |-> 0, token |-> NoToken]
    ELSE IF ~HasKeys(cfg, GrantKeys(grant))
    THEN [raised |-> TRUE, posts |-> 0, token |-> NoToken]
    ELSE IF resp.status # 200 \/ "access_token" \notin DOMAIN resp.body
    THEN [raised |-> TRUE, posts |-> 1, token |-> NoToken]
    ELSE [raised |-> FALSE, posts |-> 1,
          token |-> TokenFromResponse(resp.body, time, None, None)]

----------------------------------------------------------------------------
(* Configuration *)

AllKeys == {"OAUTH_CLIENT_ID", "OAUTH_CLIENT_SECRET", "OAUTH_TOKEN_URL",
            "OAUTH_AUTHORIZE_URL", "OAUTH_USERNAME", "OAUTH_PASSWORD"}

\* The configurations the model starts from: the value of OAUTH_GRANT_TYPE
\* (None when the key is not set) and the other keys that are set.
Configs ==
    { [grant |-> "client_credentials", keys |-> AllKeys],
      [grant |-> None, keys |-> {"OAUTH_CLIENT_ID", "OAUTH_TOKEN_URL"}],
      [grant |-> "password", keys |-> AllKeys],
      [grant |-> "authorization_code_pkce", keys |-> AllKeys],
      [grant |-> "authorization_code_pkce",
       keys |-> {"OAUTH_CLIENT_ID", "OAUTH_TOKEN_URL", "OAUTH_AUTHORIZE_URL"}],
      [grant |-> "implicit", keys |-> AllKeys] }

GrantType(cfg) == IF cfg.grant = None THEN "client_credentials" ELSE cfg.grant

----------------------------------------------------------------------------
(* get_token *)

\* The record kept of a call: its inputs, what it did and how it ended.
NoCall ==
    [op |-> "none", env |-> "dev", outcome |-> "none", token |-> NoToken,
     response |-> [raised |-> TRUE], answers |-> <<>>, error |-> "",
     refresh_posts |-> 0, acquire_posts |-> 0, browser_opens |-> 0,
     binds |-> 0, writes |-> 0, before |-> NoFile, held |-> NoToken,
     allow |-> FALSE, force |-> FALSE, t0 |-> 0, t1 |-> 0,
     acquiring |-> FALSE, waited |-> 0, served |-> 0,
     seen |-> {}, exchanged |-> <<>>, exchanged_from |-> [absent |-> TRUE],
     refresh_failed |-> FALSE]

\* The token get_token has in hand after line 286, loaded at time t0.
Loaded(dir, c, env, force, t0) ==
    IF force THEN [raised |-> FALSE, token |-> NoToken]
    ELSE load_cached_token(dir, c[env], t0)

\* Line 287: the loaded token is returned as it is.
ReturnsCached_inverted(tok, t1) == IsToken(tok) /\ is_expired(tok, t1)

ReturnsCached(tok, t1) == IsToken(tok) /\ ~is_expired(tok, t1)

\* Line 291: a refresh is attempted.
TriesRefresh(tok, t1) ==
    IsToken(tok) /\ ~ReturnsCached(tok, t1) /\ Truthy(tok.refresh_token)

\* Lines 299-302: PKCE is configured and the caller may not interact.
RefusesInteractive_never(cfg, allow) == FALSE

RefusesInteractive(cfg, allow) ==
    GrantType(cfg) = "authorization_code_pkce" /\ ~allow

\* get_token up to the point where it returns, raises or enters the PKCE
\* flow.  t0 is the time of the expiry check inside load_cached_token, t1 the
\* time of the check of line 287 and of any exchange; rresp and aresp are the
\* issuer's answers to the refresh and to the acquisition, w the outcome of
\* the write of line 306.
get_token_refresh_raises(cfg, dir, c, env, allow, force, t0, t1, rresp, aresp, w) ==
    LET L == Loaded(dir, c, env, force, t0)
        tok == L.token
        R == IF TriesRefresh(tok, t1)
             THEN _refresh_auth_token(tok, cfg, rresp, t1)
             ELSE [raised |-> TRUE, posts |-> 0, token |-> NoToken]
        A == acquire_token(cfg, GrantType(cfg), aresp, t1)
        S == save_token(dir, c, env, A.token, w)
        base == [kind |-> "returned", token |-> NoToken, cache |-> c,
                 refresh_posts |-> R.posts, acquire_posts |-> 0, writes |-> 0,
                 acquiring |-> FALSE,
                 refresh_failed |-> TriesRefresh(tok, t1) /\ R.raised]
    IN  IF L.raised
        THEN [base EXCEPT !.kind = "raised"]
        ELSE IF ReturnsCached(tok, t1)
        THEN [base EXCEPT !.token = tok]
        ELSE IF ~R.raised
        THEN [base EXCEPT !.token = R.token]
        ELSE IF TriesRefresh(tok, t1)
        THEN [base EXCEPT !.kind = "raised"]
        ELSE IF RefusesInteractive(cfg, allow)
        THEN [base EXCEPT !.acquiring = TRUE]
        ELSE IF GrantType(cfg) = "authorization_code_pkce"
        THEN [base EXCEPT !.kind = "pkce", !.acquiring = TRUE]
        ELSE IF A.raised
        THEN [base EXCEPT !.acquire_posts = A.posts, !.acquiring = TRUE]
        ELSE IF S.raised
        THEN [base EXCEPT !.acquire_posts = A.posts, !.acquiring = TRUE]
        ELSE [base EXCEPT !.token = A.token, !.cache = S.cache,
                          !.acquire_posts = A.posts, !.writes = 1,
                          !.acquiring = TRUE]

\* A get_token that removes the cache file when the acquisition fails.
get_token_clearing(cfg, dir, c, env, allow, force, t0, t1, rresp, aresp, w) ==
    LET L == Loaded(dir, c, env, force, t0)
        tok == L.token
        R == IF TriesRefresh(tok, t1)
             THEN _refresh_auth_token(tok, cfg, rresp, t1)
             ELSE [raised |-> TRUE, posts |-> 0, token |-> NoToken]
        A == acquire_token(cfg, GrantType(cfg), aresp, t1)
        S == save_token(dir, c, env, A.token, w)
        base == [kind |-> "returned", token |-> NoToken, cache |-> c,
                 refresh_posts |-> R.posts, acquire_posts |-> 0, writes |-> 0,
                 acquiring |-> FALSE,
                 refresh_failed |-> TriesRefresh(tok, t1) /\ R.raised]
    IN  IF L.raised
        THEN [base EXCEPT !.kind = "raised"]
        ELSE IF ReturnsCached(tok, t1)
        THEN [base EXCEPT !.token = tok]
        ELSE IF ~R.raised
        THEN [base EXCEPT !.token = R.token]
        ELSE IF RefusesInteractive(cfg, allow)
        THEN [base EXCEPT !.acquiring = TRUE]
        ELSE IF GrantType(cfg) = "authorization_code_pkce"
        THEN [base EXCEPT !.kind = "pkce", !.acquiring = TRUE]
        ELSE IF A.raised
        THEN [base EXCEPT !.acquire_posts = A.posts, !.acquiring = TRUE,
                          !.cache = [c EXCEPT ![env] = NoFile]]
        ELSE IF S.raised
        THEN [base EXCEPT !.acquire_posts = A.posts, !.acquiring = TRUE]
        ELSE [base EXCEPT !.token = A.token, !.cache = S.cache,
                          !.acquire_posts = A.posts, !.writes = 1,
                          !.acquiring = TRUE]

get_token(cfg, dir, c, env, allow, force, t0, t1, rresp, aresp, w) ==
    LET L == Loaded(dir, c, env, force, t0)
        tok == L.token
        R == IF TriesRefresh(tok, t1)
             THEN _refresh_auth_token(tok, cfg, rresp, t1)
             ELSE [raised |-> TRUE, posts |-> 0, token |-> NoToken]
        A == acquire_token(cfg, GrantType(cfg), aresp, t1)
        S == save_token(dir, c, env, A.token, w)
        base == [kind |-> "returned", token |-> NoToken, cache |-> c,
                 refresh_posts |-> R.posts, acquire_posts |-> 0, writes |-> 0,
                 acquiring |-> FALSE,
                 refresh_failed |-> TriesRefresh(tok, t1) /\ R.raised]
    IN  IF L.raised
        THEN [base EXCEPT !.kind = "raised"]
        ELSE IF ReturnsCached(tok, t1)
        THEN [base EXCEPT !.token = tok]
        ELSE IF ~R.raised
        THEN [base EXCEPT !.token = R.token]
        ELSE IF RefusesInteractive(cfg, allow)
        THEN [base EXCEPT !.acquiring = TRUE]
        ELSE IF GrantType(cfg) = "authorization_code_pkce"
        THEN [base EXCEPT !.kind = "pkce", !.acquiring = TRUE]
        ELSE IF A.raised
        THEN [base EXCEPT !.acquire_posts = A.posts, !.acquiring = TRUE]
        ELSE IF S.raised
        THEN [base EXCEPT !.acquire_posts = A.posts, !.acquiring = TRUE]
        ELSE [base EXCEPT !.token = A.token, !.cache = S.cache,
                          !.acquire_posts = A.posts, !.writes = 1,
                          !.acquiring = TRUE]

\* The issuer's answers a call of get_token can meet: one answer where no
\* exchange is made.
RefreshAnswers(cfg, dir, c, env, force, t0, t1) ==
    LET tok == Loaded(dir, c, env, force, t0).token
    IN  IF TriesRefresh(tok, t1) THEN Responses(serial + 1) ELSE {Rejected}

\* An acquisition POST is made exactly when a rejected one is.
AcquireAnswers(cfg, dir, c, env, allow, force, t0, t1, rresp) ==
    IF get_token(cfg, dir, c, env, allow, force, t0, t1, rresp, Rejected,
                 "raises").acquire_posts = 1
    THEN Responses(serial + 1) ELSE {Rejected}

\* The outcomes of the write of a token the issuer has granted.
SaveOutcomes(resp) ==
    IF resp.status = 200 /\ "access_token" \in DOMAIN resp.body
    THEN WriteOutcomes(cacheDir) ELSE {"raises"}

\* The times at which line 287 can run when line 286 ran at `now`: the clock
\* matters there only when a token was loaded.
LaterTimes(env, force) ==
    IF IsToken(Loaded(cacheDir, cache, env, force, now).token)
    THEN {t \in {now, now + 1} : t <= MaxTime}
    ELSE {now}

Idle == pc = "idle" /\ ops < MaxOps

\* allow_interactive_for_new is read at line 300 alone, under the PKCE grant:
\* with another grant the calls are made with its default.
Allows ==
    IF GrantType(config) = "authorization_code_pkce" THEN BOOLEAN ELSE {FALSE}

PkceVars ==
    <<listener, serving, handler_instance, waiting_on, callbacks, seen, stray>>

CallRecord(op, env, allow, force, t1, G) ==
    [NoCall EXCEPT !.op = op, !.env = env,
        !.outcome = IF G.kind = "raised" THEN "raised" ELSE "returned",
        !.error = IF G.kind = "raised" THEN "OSError" ELSE "",
        !.token = G.token, !.refresh_posts = G.refresh_posts,
        !.acquire_posts = G.acquire_posts, !.writes = G.writes,
        !.before = cache[env], !.allow = allow, !.force = force,
        !.t0 = now, !.t1 = t1, !.acquiring = G.acquiring,
        !.refresh_failed = G.refresh_failed]

Issues(G) == IF IsToken(G.token) /\ G.refresh_posts + G.acquire_posts > 0 THEN 1 ELSE 0

\* A call get_token(config, env, allow, force) that needs no browser.
GetToken(env, allow, force) ==
    /\ Idle
    /\ \E t1 \in LaterTimes(env, force) :
       \E rresp \in RefreshAnswers(config, cacheDir, cache, env, force, now, t1) :
       \E aresp \in AcquireAnswers(config, cacheDir, cache, env, allow, force,
                                    now, t1, rresp) :
       \E w \in SaveOutcomes(aresp) :
         LET G == get_token(config, cacheDir, cache, env, allow, force,
                            now, t1, rresp, aresp, w)
         IN  /\ G.kind # "pkce"
             /\ now' = t1
             /\ cache' = G.cache
             /\ serial' = serial + Issues(G)
             /\ last' = CallRecord("get_token", env, allow, force, t1, G)
    /\ ops' = ops + 1
    /\ UNCHANGED <<cacheDir, config, client, pc, call, PkceVars, OtherVars>>

\* The logout command for environment env: the sentinel is saved over the
\* cache file, and an error of the write ends the command as failed.
Logout(env) ==
    /\ Idle
    /\ \E w \in WriteOutcomes(cacheDir) :
         LET S == save_token(cacheDir, cache, env, ExpiredSentinel(now), w)
         IN  /\ cache' = S.cache
             /\ last' = [NoCall EXCEPT !.op = "logout", !.env = env,
                            !.outcome = IF S.raised THEN "raised" ELSE "returned",
                            !.error = IF S.raised THEN "Logout failed" ELSE "",
                            !.writes = IF S.raised THEN 0 ELSE 1,
                            !.before = cache[env], !.t0 = now, !.t1 = now]
    /\ ops' = ops + 1
    /\ UNCHANGED <<now, cacheDir, config, serial, client, pc, call, PkceVars, OtherVars>>

\* time.time() advances.  The clock is read to stamp a new token and to test
\* the expiry of a cached one (lines 61, 74 and 287), so that its advance
\* shows only once some cache file holds a token.
Tick ==
    /\ pc = "idle"
    /\ now < MaxTime
    /\ \E e \in Envs : Decodes(cache[e])
    /\ now' = now + 1
    /\ UNCHANGED <<cacheDir, cache, config, serial, ops, client, last, pc, call, PkceVars,
                   OtherVars>>

----------------------------------------------------------------------------
(* AuthenticatedClient *)

NoClient == [constructed |-> FALSE]

Authorization(token) == <<token.token_type, token.access_token>>

\* AuthenticatedClient.__init__(config, env).
ClientInit(env) ==
    /\ Idle
    /\ \E t1 \in LaterTimes(env, FALSE) :
       \E rresp \in RefreshAnswers(config, cacheDir, cache, env, FALSE, now, t1) :
       \E aresp \in AcquireAnswers(config, cacheDir, cache, env, FALSE, FALSE,
                                    now, t1, rresp) :
       \E w \in SaveOutcomes(aresp) :
         LET G == get_token(config, cacheDir, cache, env, FALSE, FALSE,
                            now, t1, rresp, aresp, w)
             R == CallRecord("init", env, FALSE, FALSE, t1, G)
         IN  /\ G.kind # "pkce"
             /\ now' = t1
             /\ cache' = G.cache
             /\ serial' = serial + Issues(G)
             /\ IF G.kind = "raised"
                THEN /\ client' = NoClient
                     /\ last' = R
                ELSE IF ~IsToken(G.token)
                THEN /\ client' = NoClient
                     /\ last' = [R EXCEPT !.outcome = "raised",
                                          !.error = "Failed to acquire initial token"]
                ELSE /\ client' = [constructed |-> TRUE, env |-> env,
                                   token |-> G.token,
                                   header |-> Authorization(G.token)]
                     /\ last' = R
    /\ ops' = ops + 1
    /\ UNCHANGED <<cacheDir, config, pc, call, PkceVars, OtherVars>>

\* What the transport does with one request: it raises, or answers.
Raises == [raised |-> TRUE]
Response(status) == [status_code |-> status]
TransportAnswers == {Raises, Response(200), Response(401), Response(500)}

\* Line 384: a 401 and no refresh token held.
no_refresh_token_returns(base) == base

no_refresh_token(base) ==
    [base EXCEPT !.outcome = "raised", !.response = Raises,
                 !.error = "Authentication failed and no refresh token available"]

\* Lines 369-372 and 385: the refreshed token R.token is held, persisted (the
\* cache becomes c1) and sent with the retry, whose response a2 is returned.
retried_returns_first(base, a1, a2, R, c1) ==
    [base EXCEPT !.response = a1, !.answers = <<a1, a2>>,
                 !.refresh_posts = R.posts, !.writes = 1, !.token = R.token,
                 !.header = Authorization(R.token), !.cache = c1]

\* A recovery that retries without line 370: the cache stays as it was.
retried_unsaved(base, a1, a2, R, c1) ==
    [base EXCEPT !.response = a2, !.answers = <<a1, a2>>,
                 !.refresh_posts = R.posts, !.writes = 0, !.token = R.token,
                 !.header = Authorization(R.token)]

retried(base, a1, a2, R, c1) ==
    [base EXCEPT !.response = a2, !.answers = <<a1, a2>>,
                 !.refresh_posts = R.posts, !.writes = 1, !.token = R.token,
                 !.header = Authorization(R.token), !.cache = c1]

\* AuthenticatedClient.request with a1 the transport's answer to the first
\* attempt, rresp the issuer's answer to the refresh and a2 the transport's
\* answer to the retry, w1 and w2 the outcomes of the writes of lines 370 and
\* 376: [outcome, error, response, answers, refresh_posts, writes, token,
\* header, cache].
request(cl, cfg, dir, c, time, a1, rresp, a2, w1, w2) ==
    LET R == _refresh_auth_token(cl.token, cfg, rresp, time)
        S == save_token(dir, c, cl.env, R.token, w1)
        \* the except clause of lines 373-382, entered with the client's
        \* token and header as they are and the cache as it is
        failed(tok, hdr, c1, answers, writes) ==
            LET I == save_token(dir, c1, cl.env, ExpiredSentinel(time), w2)
            IN  [outcome |-> "raised",
                 error |-> IF I.raised THEN "OSError"
                           ELSE "Authentication failed and token refresh unsuccessful",
                 response |-> Raises, answers |-> answers,
                 refresh_posts |-> R.posts,
                 writes |-> IF I.raised THEN writes ELSE writes + 1,
                 token |-> tok, header |-> hdr, cache |-> I.cache]
        base == [outcome |-> "returned", error |-> "", response |-> a1,
                 answers |-> <<a1>>, refresh_posts |-> 0, writes |-> 0,
                 token |-> cl.token, header |-> cl.header, cache |-> c]
    IN  IF a1 = Raises
        THEN [base EXCEPT !.outcome = "raised", !.error = "TransportError"]
        ELSE IF a1.status_code # 401
        THEN base
        ELSE IF ~Truthy(cl.token.refresh_token)
        THEN no_refresh_token(base)
        ELSE IF R.raised
        THEN failed(cl.token, cl.header, c, <<a1>>, 0)
        ELSE IF S.raised
        THEN failed(R.token, cl.header, c, <<a1>>, 0)
        ELSE IF a2 = Raises
        THEN failed(R.token, Authorization(R.token), S.cache, <<a1, a2>>, 1)
        ELSE retried(base, a1, a2, R, S.cache)

\* The answers a request can meet: one answer where no exchange or no retry
\* is made.
RetryRefreshAnswers(a1) ==
    IF a1 = Response(401) /\ Truthy(client.token.refresh_token)
    THEN Responses(serial + 1) ELSE {Rejected}

Refreshed(a1, rresp) ==
    /\ a1 = Response(401)
    /\ ~_refresh_auth_token(client.token, config, rresp, now).raised

PersistOutcomes(a1, rresp) ==
    IF Refreshed(a1, rresp) THEN WriteOutcomes(cacheDir) ELSE {"raises"}

RetryAnswers(a1, rresp, w1) ==
    IF Refreshed(a1, rresp) /\ w1 = "written" THEN TransportAnswers ELSE {Raises}

InvalidateOutcomes(a1, a2) ==
    IF a1 = Response(401) /\ Truthy(client.token.refresh_token) /\ a2 = Raises
    THEN WriteOutcomes(cacheDir) ELSE {"raises"}

\* A call client.request(method, url).
Request ==
    /\ Idle
    /\ client.constructed
    /\ \E a1 \in TransportAnswers :
       \E rresp \in RetryRefreshAnswers(a1) :
       \E w1 \in PersistOutcomes(a1, rresp) :
       \E a2 \in RetryAnswers(a1, rresp, w1) :
       \E w2 \in InvalidateOutcomes(a1, a2) :
         LET Q == request(client, config, cacheDir, cache, now, a1, rresp, a2, w1, w2)
         IN  /\ client' = [client EXCEPT !.token = Q.token, !.header = Q.header]
             /\ cache' = Q.cache
             /\ serial' = serial + (IF IsToken(Q.token) /\ Q.token # client.token
                                    THEN 1 ELSE 0)
             /\ last' = [NoCall EXCEPT !.op = "request", !.env = client.env,
                            !.outcome = Q.outcome, !.error = Q.error,
                            !.response = Q.response, !.answers = Q.answers,
                            !.refresh_posts = Q.refresh_posts,
                            !.writes = Q.writes, !.before = cache[client.env],
                            !.held = client.token, !.t0 = now, !.t1 = now]
    /\ ops' = ops + 1
    /\ UNCHANGED <<now, cacheDir, config, pc, call, PkceVars, OtherVars>>

----------------------------------------------------------------------------
(* The PKCE loopback flow: _acquire_pkce_token and its listener thread *)

NoHandler == [absent |-> TRUE]

\* The state value generated for the login attempt (line 157).
GeneratedState == "st"

\* Line 155: code_verifier = secrets.token_urlsafe(64).
CodeVerifier == "cv"

\* Lines 132-134 under BaseHTTPRequestHandler: every request whose request
\* line parses is answered through send_response (for do_GET at line 118, and
\* from send_error at lines 116 and 128 and for a method without handler),
\* which calls log_request, and this log_message with the request line: the
\* method and the path with its query string.  What is logged of a request is
\* here the set of parameter values its path carries.
log_message(req) ==
    IF req.method = "" THEN {} ELSE {req.code, req.state, req.error} \ {None}

Codes == <<"code1", "code2", "code3", "code4">>

\* A request on the listener: its method and, for a GET, the code, state and
\* error parameters of its query string (None where there is none).
Get_(code, state, error) ==
    [method |-> "GET", code |-> code, state |-> state, error |-> error]

\* The requests that can reach the listener as its k-th request: the issuer's
\* redirect after consent and after refusal, a refusal that carries a code, a
\* forged redirect, a redirect without state, a GET without parameters (the
\* browser's favicon request) and a request of another method.
Requests(k) ==
    { Get_(Codes[k], GeneratedState, None),
      Get_(None, GeneratedState, "access_denied"),
      Get_(Codes[k], GeneratedState, "access_denied"),
      Get_(Codes[k], "evil", None),
      Get_(Codes[k], None, None),
      Get_(None, None, None),
      [method |-> "POST", code |-> None, state |-> None, error |-> None] }

\* SSOCallbackHandler(request, ...): __init__ runs the whole request
\* (BaseRequestHandler.__init__ calls handle()), do_GET included, before the
\* constructor returns the instance.
SSOCallbackHandler(k, req) ==
    IF req.method = "GET"
    THEN [id |-> k, auth_code |-> req.code, state |-> req.state,
          error |-> req.error, done |-> TRUE]
    ELSE [id |-> k, auth_code |-> None, state |-> None, error |-> None,
          done |-> FALSE]

InFlow == pc # "idle"

\* handler_factory, on the serve_forever thread: the k-th request is handled
\* and the instance that handled it is stored in handler_instance.  Requests
\* handled once the caller has left the try block are read by nobody.
ServeRequest ==
    /\ InFlow
    /\ pc # "finally"
    /\ serving
    /\ ~stray
    /\ callbacks < MaxCallbacks
    /\ \E req \in Requests(callbacks + 1) :
         /\ callbacks' = callbacks + 1
         /\ handler_instance' = SSOCallbackHandler(callbacks + 1, req)
         /\ log' = log \cup (log_message(req) \cap {CodeVerifier, GeneratedState})
    /\ UNCHANGED <<now, cacheDir, cache, config, serial, ops, client, last, pc,
                   call, listener, serving, waiting_on, seen, stray, procs,
                   probe, keyring>>

\* A connection on which nothing is sent: serve_forever accepts it and the
\* handler's constructor blocks in handle(), reading the request line from a
\* socket without timeout, on the only thread that serves the listener.
Silent == [method |-> "", code |-> None, state |-> None, error |-> None]

AcceptStray ==
    /\ InFlow
    /\ pc # "finally"
    /\ serving
    /\ ~stray
    /\ callbacks < MaxCallbacks
    /\ stray' = TRUE
    /\ UNCHANGED <<now, cacheDir, cache, config, serial, ops, client, last, pc,
                   call, listener, serving, handler_instance, waiting_on,
                   callbacks, seen,
                   OtherVars>>

\* The peer closes its silent connection: handle() returns without do_GET
\* and handler_factory stores the instance, whose done event is not set.
StrayCloses ==
    /\ stray
    /\ stray' = FALSE
    /\ callbacks' = callbacks + 1
    /\ handler_instance' = SSOCallbackHandler(callbacks + 1, Silent)
    /\ UNCHANGED <<now, cacheDir, cache, config, serial, ops, client, last, pc,
                   call, listener, serving, waiting_on, seen,
                   OtherVars>>

PkceKeys == {"OAUTH_CLIENT_ID", "OAUTH_AUTHORIZE_URL", "OAUTH_TOKEN_URL"}

StartOutcomes == {"bind_raises", "browser_raises", "thread_raises", "started"}

\* get_token(config, env, allow_interactive_for_new, force) when it
\* reaches acquire_token with the PKCE grant: lines 149-191 of
\* _acquire_pkce_token run, and the caller stands before line 195.  The
\* interactive flow is what the login command runs, once in a process.
AcquirePkce(op, env, allow, force) ==
    /\ listener = "none"
    /\ \E t1 \in LaterTimes(env, force) :
       \E rresp \in RefreshAnswers(config, cacheDir, cache, env, force, now, t1) :
       \E how \in StartOutcomes :
         LET G == get_token(config, cacheDir, cache, env, allow, force,
                            now, t1, rresp, Rejected, "raises")
             R == CallRecord(op, env, allow, force, t1, G)
         IN  /\ G.kind = "pkce"
             /\ now' = t1
             /\ IF ~HasKeys(config, PkceKeys)
                THEN /\ how = "started"
                     /\ last' = [R EXCEPT !.error = "KeyError"]
                     /\ pc' = "idle"
                     /\ call' = NoCall
                     /\ UNCHANGED <<listener, serving>>
                ELSE IF how = "bind_raises"
                THEN /\ last' = [R EXCEPT !.error = "OSError"]
                     /\ listener' = "none"
                     /\ pc' = "idle"
                     /\ call' = NoCall
                     /\ UNCHANGED serving
                ELSE IF how = "browser_raises"
                THEN /\ last' = [R EXCEPT !.error = "webbrowser.Error", !.binds = 1]
                     /\ listener' = "bound"
                     /\ pc' = "idle"
                     /\ call' = NoCall
                     /\ UNCHANGED serving
                ELSE IF how = "thread_raises"
                THEN /\ last' = [R EXCEPT !.error = "RuntimeError", !.binds = 1,
                                          !.browser_opens = 1]
                     /\ listener' = "bound"
                     /\ pc' = "idle"
                     /\ call' = NoCall
                     /\ UNCHANGED serving
                ELSE /\ call' = [R EXCEPT !.outcome = "none", !.binds = 1,
                                          !.browser_opens = 1]
                     /\ pc' = "check_handler"
                     /\ listener' = "bound"
                     /\ serving' = TRUE
                     /\ last' = NoCall
    /\ ops' = ops + 1
    /\ handler_instance' = NoHandler
    /\ waiting_on' = NoHandler
    /\ callbacks' = 0
    /\ seen' = {}
    \* lines 155 and 157: a verifier and a state that no record holds yet
    /\ log' = IF HasKeys(config, PkceKeys) THEN {} ELSE log
    /\ UNCHANGED <<cacheDir, cache, config, serial, client, stray, procs,
                   probe, keyring>>

GetTokenPkce(env, allow, force) ==
    /\ Idle
    /\ AcquirePkce("get_token", env, allow, force)

CallerVars == <<now, cacheDir, cache, config, serial, ops, client, last,
                listener, serving, handler_instance, callbacks, stray>>

\* raise RuntimeError(err) inside the try of lines 193-228.
Fail(err) ==
    /\ pc' = "finally"
    /\ call' = [call EXCEPT !.error = err]

\* One read of the closure variable handler_instance by the caller.
Read == seen' = seen \cup {handler_instance.id}

\* Line 195, first operand: `not handler_instance`.
CheckHandler ==
    /\ pc = "check_handler"
    /\ IF handler_instance = NoHandler
       THEN Fail("SSO login timed out") /\ UNCHANGED seen
       ELSE pc' = "wait_done" /\ Read /\ UNCHANGED call
    /\ UNCHANGED <<CallerVars, waiting_on, OtherVars>>

\* Line 195, second operand: handler_instance.done.wait(timeout=300) returns
\* at once when the event of the instance read here is set, and blocks
\* otherwise.
WaitDone ==
    /\ pc = "wait_done"
    /\ Read
    /\ IF handler_instance.done
       THEN pc' = "check_error" /\ UNCHANGED waiting_on
       ELSE pc' = "blocked" /\ waiting_on' = handler_instance
    /\ UNCHANGED <<CallerVars, call, OtherVars>>

\* The wait of line 195 ends after 300 seconds: the event the caller waits on
\* belongs to an instance whose request is over, and nothing sets it.
WaitTimesOut ==
    /\ pc = "blocked"
    /\ now' = now + CallbackTimeout
    /\ pc' = "finally"
    /\ call' = [call EXCEPT !.error = "SSO login timed out",
                            !.waited = CallbackTimeout]
    /\ UNCHANGED <<cacheDir, cache, config, serial, ops, client, last, listener,
                   serving, handler_instance, callbacks, waiting_on, seen, stray,
                   OtherVars>>

\* Line 197: `if handler_instance.error`.
CheckError ==
    /\ pc = "check_error"
    /\ Read
    /\ IF Truthy(handler_instance.error)
       THEN Fail("SSO login failed")
       ELSE pc' = "check_code" /\ UNCHANGED call
    /\ UNCHANGED <<CallerVars, waiting_on, OtherVars>>

\* Line 199, first operand: `not handler_instance.auth_code`.
CheckCode ==
    /\ pc = "check_code"
    /\ Read
    /\ IF ~Truthy(handler_instance.auth_code)
       THEN Fail("Invalid callback response")
       ELSE pc' = "check_state_set" /\ UNCHANGED call
    /\ UNCHANGED <<CallerVars, waiting_on, OtherVars>>

\* Line 199, second operand: `not handler_instance.state`.
CheckStateSet ==
    /\ pc = "check_state_set"
    /\ Read
    /\ IF ~Truthy(handler_instance.state)
       THEN Fail("Invalid callback response")
       ELSE pc' = "check_state" /\ UNCHANGED call
    /\ UNCHANGED <<CallerVars, waiting_on, OtherVars>>

\* Line 201: `if handler_instance.state != state`.
CheckState ==
    /\ pc = "check_state"
    /\ Read
    /\ IF handler_instance.state # GeneratedState
       THEN Fail("State mismatch - possible CSRF attack")
       ELSE pc' = "exchange" /\ UNCHANGED call
    /\ UNCHANGED <<CallerVars, waiting_on, OtherVars>>

\* Lines 205-228: the code read from handler_instance at line 213 is sent to
\* the token endpoint with the code verifier.
Exchange ==
    /\ pc = "exchange"
    /\ Read
    /\ \E resp \in Responses(serial + 1) :
         LET ok == resp.status = 200 /\ "access_token" \in DOMAIN resp.body
         IN  /\ call' = [call EXCEPT
                   !.exchanged = Append(@, handler_instance.auth_code),
                   !.exchanged_from = handler_instance,
                   !.acquire_posts = @ + 1,
                   !.error = IF ok THEN "" ELSE "OAuthError",
                   !.token = IF ok THEN TokenFromResponse(resp.body, now, None, None)
                             ELSE NoToken]
             /\ serial' = serial + (IF ok THEN 1 ELSE 0)
    /\ pc' = "finally"
    /\ UNCHANGED <<now, cacheDir, cache, config, ops, client, last, listener,
                   serving, handler_instance, callbacks, waiting_on, stray,
                   OtherVars>>

\* Lines 230-232, server.shutdown() and server.server_close(), and then the
\* rest of get_token: lines 304-310.  shutdown() waits for serve_forever to
\* leave its loop, which it cannot do while it is inside a handler.
Finally ==
    /\ pc = "finally"
    /\ ~stray
    /\ serving' = FALSE
    /\ listener' = "closed"
    /\ \E w \in (IF IsToken(call.token) THEN WriteOutcomes(cacheDir) ELSE {"raises"}) :
       LET S == save_token(cacheDir, cache, call.env, call.token, w)
           saved == IsToken(call.token) /\ ~S.raised
       IN  /\ cache' = IF saved THEN S.cache ELSE cache
           /\ last' = [call EXCEPT !.outcome = "returned",
                          !.token = IF saved THEN call.token ELSE NoToken,
                          !.error = IF IsToken(call.token) /\ S.raised
                                    THEN "OSError" ELSE call.error,
                          !.writes = IF saved THEN 1 ELSE 0,
                          !.served = callbacks, !.seen = seen]
    /\ pc' = "idle"
    /\ call' = NoCall
    /\ handler_instance' = NoHandler
    /\ waiting_on' = NoHandler
    /\ callbacks' = 0
    /\ seen' = {}
    /\ UNCHANGED <<now, cacheDir, config, serial, ops, client, stray, OtherVars>>

----------------------------------------------------------------------------
(* Two processes and one cache file: save_token step by step *)

Procs == {1, 2}

RaceEnv == "dev"

\* Both processes are about to call get_token(config, RaceEnv).
Waiting ==
    [pc |-> [p \in Procs |-> "start"], token |-> [p \in Procs |-> NoToken],
     saves |-> <<>>]

\* The length of the JSON text of a record, in units: the text of a record
\* with a refresh token is longer than the text of one without.
Size(d) == IF Truthy(d.refresh_token) THEN 2 ELSE 1

\* Line 84: open(path, "w") leaves the file empty.
Truncated == [kind |-> "corrupt", size |-> 0]

FileSize(file) ==
    IF file.kind = "json" THEN Size(file.data)
    ELSE IF "size" \in DOMAIN file THEN file.size
    ELSE 0

\* Line 85 and the close of the file: the text of d is written from offset 0
\* of the file as it is by then; what the file held beyond the end of that
\* text stays.
Overlay(file, d) ==
    IF Size(d) >= FileSize(file)
    THEN JsonFile(d)
    ELSE [kind |-> "corrupt", size |-> FileSize(file), head |-> d]

RaceVars ==
    <<cacheDir, config, ops, client, last, pc, call, PkceVars, log, probe,
      keyring>>

\* Process p runs get_token up to the call of save_token at line 306, with an
\* issuer that grants what it is asked.
RaceGetToken(p) ==
    /\ procs.pc[p] = "start"
    /\ LET L == load_cached_token(cacheDir, cache[RaceEnv], now)
       IN  IF ReturnsCached(L.token, now)
           THEN /\ procs' = [procs EXCEPT !.pc[p] = "done", !.token[p] = L.token]
                /\ UNCHANGED serial
           ELSE \E resp \in Issued(serial + 1) :
                  LET A == acquire_token(config, GrantType(config), resp, now)
                  IN  /\ procs' = [procs EXCEPT !.pc[p] = "open",
                                                !.token[p] = A.token]
                      /\ serial' = serial + 1
    /\ UNCHANGED <<now, cache, RaceVars>>

\* save_token, line 84, in process p.
RaceOpen(p) ==
    /\ procs.pc[p] = "open"
    /\ cache' = [cache EXCEPT ![RaceEnv] = Truncated]
    /\ procs' = [procs EXCEPT !.pc[p] = "write"]
    /\ UNCHANGED <<now, serial, RaceVars>>

\* save_token, line 85 and the end of the with block, in process p.
RaceWrite(p) ==
    /\ procs.pc[p] = "write"
    /\ cache' = [cache EXCEPT
                   ![RaceEnv] = Overlay(@, to_dict(procs.token[p]))]
    /\ procs' = [procs EXCEPT !.pc[p] = "done", !.saves = Append(@, p)]
    /\ UNCHANGED <<now, serial, RaceVars>>

RaceInit ==
    /\ now = 0
    /\ cacheDir = "ok"
    /\ cache = [e \in Envs |-> NoFile]
    /\ config \in {c \in Configs :
                     /\ GrantType(c) \in {"client_credentials", "password"}
                     /\ HasKeys(c, GrantKeys(GrantType(c)))}
    /\ serial = 0
    /\ ops = 0
    /\ client = NoClient
    /\ last = NoCall
    /\ pc = "idle"
    /\ call = NoCall
    /\ listener = "none"
    /\ serving = FALSE
    /\ handler_instance = NoHandler
    /\ waiting_on = NoHandler
    /\ callbacks = 0
    /\ seen = {}
    /\ stray = FALSE
    /\ procs = Waiting
    /\ log = {}
    /\ probe = NoProbe
    /\ keyring = NoFile

RaceNext ==
    \/ \E p \in Procs : RaceGetToken(p)
    \/ \E p \in Procs : RaceOpen(p)
    \/ \E p \in Procs : RaceWrite(p)

RaceSpec == RaceInit /\ [][RaceNext]_vars

----------------------------------------------------------------------------
(* The login command, cli/auth.py *)

\* The name under which a run of the command is logged.
LoginOp(force) == IF force THEN "login --force" ELSE "login"

\* Lines 25-31: `if not force and (token := get_token(config, env_name))`.
\* With --force the call is not made; without it the command ends when the
\* call gives a token ("Already logged in") or raises (line 45).
LoginCheck(env, force) ==
    /\ Idle
    /\ IF force
       THEN /\ pc' = "login_acquire"
            /\ call' = [NoCall EXCEPT !.op = LoginOp(force), !.env = env]
            /\ UNCHANGED <<now, cache, serial, ops, last>>
       ELSE \E t1 \in LaterTimes(env, FALSE) :
            \E rresp \in RefreshAnswers(config, cacheDir, cache, env, FALSE,
                                         now, t1) :
            \E aresp \in AcquireAnswers(config, cacheDir, cache, env, FALSE,
                                         FALSE, now, t1, rresp) :
            \E w \in SaveOutcomes(aresp) :
              LET G == get_token(config, cacheDir, cache, env, FALSE, FALSE,
                                 now, t1, rresp, aresp, w)
                  R == CallRecord(LoginOp(force), env, FALSE, FALSE, t1, G)
              IN  /\ G.kind # "pkce"
                  /\ now' = t1
                  /\ cache' = G.cache
                  /\ serial' = serial + Issues(G)
                  /\ IF G.kind = "raised"
                     THEN /\ last' = [R EXCEPT !.error = "Login failed"]
                          /\ ops' = ops + 1
                          /\ UNCHANGED <<pc, call>>
                     ELSE IF IsToken(G.token)
                     THEN /\ last' = [R EXCEPT !.error = "Already logged in"]
                          /\ ops' = ops + 1
                          /\ UNCHANGED <<pc, call>>
                     ELSE /\ pc' = "login_acquire"
                          /\ call' = [NoCall EXCEPT !.op = LoginOp(force),
                                                    !.env = env]
                          /\ UNCHANGED <<ops, last>>
    /\ UNCHANGED <<cacheDir, config, client, PkceVars, OtherVars>>

\* Lines 33-37: get_token(config, env_name, allow_interactive_for_new=True),
\* where it needs no browser.
LoginAcquire ==
    /\ pc = "login_acquire"
    /\ \E t1 \in LaterTimes(call.env, FALSE) :
       \E rresp \in RefreshAnswers(config, cacheDir, cache, call.env, FALSE,
                                    now, t1) :
       \E aresp \in AcquireAnswers(config, cacheDir, cache, call.env, TRUE,
                                    FALSE, now, t1, rresp) :
       \E w \in SaveOutcomes(aresp) :
         LET G == get_token(config, cacheDir, cache, call.env, TRUE, FALSE,
                            now, t1, rresp, aresp, w)
             R == CallRecord(call.op, call.env, TRUE, FALSE, t1, G)
         IN  /\ G.kind # "pkce"
             /\ now' = t1
             /\ cache' = G.cache
             /\ serial' = serial + Issues(G)
             /\ last' = IF IsToken(G.token) THEN R
                        ELSE [R EXCEPT !.error = "Login failed"]
    /\ pc' = "idle"
    /\ call' = NoCall
    /\ ops' = ops + 1
    /\ UNCHANGED <<cacheDir, config, client, PkceVars, OtherVars>>

\* Lines 33-37 where get_token reaches the PKCE grant.
LoginAcquirePkce ==
    /\ pc = "login_acquire"
    /\ listener = "none"
    /\ AcquirePkce(call.op, call.env, TRUE, FALSE)

\* A record left by an earlier login, issued at time 0 and good until
\* `expires`.
Stored(expires) ==
    JsonFile(to_dict(AuthToken("at0", expires, "Bearer", "rt", None, 0)))

LoginInit ==
    /\ now = 0
    /\ cacheDir = "ok"
    /\ cache \in [Envs -> {NoFile, Stored(1), Stored(DefaultExpiresIn)}]
    /\ config \in Configs
    /\ serial = 0
    /\ ops = 0
    /\ client = NoClient
    /\ last = NoCall
    /\ pc = "idle"
    /\ call = NoCall
    /\ listener = "none"
    /\ serving = FALSE
    /\ handler_instance = NoHandler
    /\ waiting_on = NoHandler
    /\ callbacks = 0
    /\ seen = {}
    /\ stray = FALSE
    /\ procs = Waiting
    /\ log = {}
    /\ probe = NoProbe
    /\ keyring = NoFile

----------------------------------------------------------------------------
(* SSOAuth, sso.py *)

\* The record kept of a call on the SSOAuth object.
NoSsoCall ==
    [op |-> "none", outcome |-> "none", error |-> "", token |-> NoToken,
     status |-> [logged_in |-> FALSE], before |-> NoFile, stored |-> NoToken,
     t0 |-> 0, t1 |-> 0,
     refresh_posts |-> 0, exchanges |-> <<>>, browser_opens |-> 0,
     stores |-> 0]

\* What a call into the keyring backend can do.
KeyringOutcomes == {"ok", "raises"}

\* _get_stored_token with the outcome g of keyring.get_password: no token
\* when the backend raises, when there is no entry and when the entry does
\* not decode.
_get_stored_token(k, g) ==
    IF g = "ok" /\ k.kind = "json"
       /\ {"access_token", "expires_at"} \subseteq DOMAIN k.data
    THEN SSOToken_from_dict(k.data)
    ELSE NoToken

\* _store_token with the outcome sw of keyring.set_password: [raised, keyring].
_store_token(k, token, sw) ==
    IF sw = "ok"
    THEN [raised |-> FALSE, keyring |-> JsonFile(SSOToken_to_dict(token))]
    ELSE [raised |-> TRUE, keyring |-> k]

\* _clear_stored_token with the outcome dw of keyring.delete_password.
_clear_stored_token(k, dw) == IF dw = "ok" THEN NoFile ELSE k

\* _refresh_token(token) at time `time`, with resp the issuer's answer:
\* [raised, token, keyring, posts, stores].
_refresh_token(k, token, resp, time, sw, dw) ==
    LET new == SSOToken(resp.body["access_token"],
                        Get(resp.body, "refresh_token", token.refresh_token),
                        Get(resp.body, "id_token", token.id_token),
                        time + Get(resp.body, "expires_in", DefaultExpiresIn),
                        Get(resp.body, "token_type", "Bearer"))
        S == _store_token(k, new, sw)
        failed(posts) == [raised |-> TRUE, token |-> NoToken,
                          keyring |-> _clear_stored_token(k, dw),
                          posts |-> posts, stores |-> 0]
    IN  IF ~Truthy(token.refresh_token)
        THEN [raised |-> TRUE, token |-> NoToken, keyring |-> k, posts |-> 0,
              stores |-> 0]
        ELSE IF resp.status # 200 \/ "access_token" \notin DOMAIN resp.body
        THEN failed(1)
        ELSE IF S.raised
        THEN failed(1)
        ELSE [raised |-> FALSE, token |-> new, keyring |-> S.keyring,
              posts |-> 1, stores |-> 1]

\* A get_token that gives no token where the stored one is expired and
\* cannot be refreshed.
SSOAuth_get_token_unexpired(k, g, t0, resp, sw, dw) ==
    LET token == _get_stored_token(k, g)
        R == _refresh_token(k, token, resp, t0, sw, dw)
        kept == [token |-> token, keyring |-> k, posts |-> 0, stores |-> 0]
    IN  IF ~IsToken(token)
        THEN kept
        ELSE IF SSOToken_is_expired(token, t0) /\ Truthy(token.refresh_token)
        THEN [token |-> R.token, keyring |-> R.keyring, posts |-> R.posts,
              stores |-> R.stores]
        ELSE IF SSOToken_is_expired(token, t0)
        THEN [kept EXCEPT !.token = NoToken]
        ELSE kept

\* SSOAuth.get_token() at time t0: [token, keyring, posts, stores].
SSOAuth_get_token(k, g, t0, resp, sw, dw) ==
    LET token == _get_stored_token(k, g)
        R == _refresh_token(k, token, resp, t0, sw, dw)
        kept == [token |-> token, keyring |-> k, posts |-> 0, stores |-> 0]
    IN  IF ~IsToken(token)
        THEN kept
        ELSE IF SSOToken_is_expired(token, t0) /\ Truthy(token.refresh_token)
        THEN [token |-> R.token, keyring |-> R.keyring, posts |-> R.posts,
              stores |-> R.stores]
        ELSE kept

\* A status that goes by the presence of a token alone.
is_logged_in_any(token, time) == TRUE

\* Line 311.
is_logged_in(token, time) ==
    ~(SSOToken_is_expired(token, time) /\ ~Truthy(token.refresh_token))

\* SSOAuth.get_status(), lines 305-318, for the token that get_token gave
\* and the clock reading t1 of lines 311 and 315.
get_status(token, t1) ==
    IF ~IsToken(token)
    THEN [logged_in |-> FALSE]
    ELSE [logged_in |-> is_logged_in(token, t1),
          expires_at |-> token.expires_at,
          expires_in |-> IF token.expires_at > t1
                         THEN token.expires_at - t1 ELSE 0,
          has_refresh_token |-> Truthy(token.refresh_token),
          has_id_token |-> Truthy(token.id_token)]

\* The answers of the issuer a call can meet: one where no refresh is made.
SsoRefreshAnswers(g, time) ==
    LET token == _get_stored_token(keyring, g)
    IN  IF IsToken(token) /\ SSOToken_is_expired(token, time)
           /\ Truthy(token.refresh_token)
        THEN Responses(serial + 1) ELSE {Rejected}

\* The outcomes of the store that follows a granted refresh, and of the
\* clearing that follows a failed one.
SsoStoreOutcomes(resp) ==
    IF resp.status = 200 /\ "access_token" \in DOMAIN resp.body
    THEN KeyringOutcomes ELSE {"raises"}

SsoClearOutcomes(g, time, resp, sw) ==
    LET token == _get_stored_token(keyring, g)
    IN  IF IsToken(token) /\ _refresh_token(keyring, token, resp, time, sw, "ok").posts = 1
           /\ _refresh_token(keyring, token, resp, time, sw, "ok").raised
        THEN KeyringOutcomes ELSE {"ok"}

SsoIdle == ops < MaxOps

SsoVars ==
    <<cacheDir, cache, config, client, pc, call, PkceVars, procs, log, probe>>

\* sso.get_token().
SsoGetToken ==
    /\ SsoIdle
    /\ \E g \in KeyringOutcomes :
       \E resp \in SsoRefreshAnswers(g, now) :
       \E sw \in SsoStoreOutcomes(resp) :
       \E dw \in SsoClearOutcomes(g, now, resp, sw) :
         LET G == SSOAuth_get_token(keyring, g, now, resp, sw, dw)
         IN  /\ keyring' = G.keyring
             /\ serial' = serial + G.stores
             /\ last' = [NoSsoCall EXCEPT
                            !.op = "get_token", !.outcome = "returned",
                            !.token = G.token, !.before = keyring,
                            !.stored = _get_stored_token(keyring, g),
                            !.t0 = now, !.t1 = now,
                            !.refresh_posts = G.posts, !.stores = G.stores]
    /\ ops' = ops + 1
    /\ UNCHANGED <<now, SsoVars>>

\* sso.get_status(): get_token at time `now`, lines 311-318 at time t1.
SsoGetStatus ==
    /\ SsoIdle
    /\ \E g \in KeyringOutcomes :
       \E resp \in SsoRefreshAnswers(g, now) :
       \E sw \in SsoStoreOutcomes(resp) :
       \E dw \in SsoClearOutcomes(g, now, resp, sw) :
       \E t1 \in {t \in {now, now + 1} : t <= MaxTime} :
         LET G == SSOAuth_get_token(keyring, g, now, resp, sw, dw)
         IN  /\ keyring' = G.keyring
             /\ serial' = serial + G.stores
             /\ now' = t1
             /\ last' = [NoSsoCall EXCEPT
                            !.op = "get_status", !.outcome = "returned",
                            !.token = G.token, !.before = keyring,
                            !.stored = _get_stored_token(keyring, g),
                            !.status = get_status(G.token, t1),
                            !.t0 = now, !.t1 = t1,
                            !.refresh_posts = G.posts, !.stores = G.stores]
    /\ ops' = ops + 1
    /\ UNCHANGED SsoVars

\* sso.logout().
SsoLogout ==
    /\ SsoIdle
    /\ \E dw \in KeyringOutcomes :
         /\ keyring' = _clear_stored_token(keyring, dw)
         /\ last' = [NoSsoCall EXCEPT !.op = "logout", !.outcome = "returned",
                                      !.before = keyring, !.t0 = now, !.t1 = now]
    /\ ops' = ops + 1
    /\ UNCHANGED <<now, serial, SsoVars>>

\* The attributes of the class SSOCallbackHandler of sso.py, lines 62-98:
\* its methods.  auth_code, state, error and done are set by __init__ on
\* each instance (lines 66-69) and are no attributes of the class.
SSOCallbackHandlerClass == {"__init__", "do_GET", "log_message"}

\* server.RequestHandlerClass.<attr>, lines 198-207: the server is built
\* with the class at line 170 and RequestHandlerClass is never assigned.
ClassHas(attr) == attr \in SSOCallbackHandlerClass

\* What the lines after 198 can read from the handler, and what the issuer
\* can answer to the exchange.
SsoCallbacks ==
    IF ClassHas("done")
    THEN {SSOCallbackHandler(1, req) : req \in Requests(1)}
    ELSE {NoHandler}

SsoExchangeAnswers ==
    IF ClassHas("done") THEN Responses(serial + 1) ELSE {Rejected}

\* SSOAuth.login() at time t0: [outcome, error, token, keyring,
\* refresh_posts, exchanges, browser_opens, stores].
SSOAuth_login(k, g, t0, rresp, sw, dw, how, cb, xresp, xsw) ==
    LET token == _get_stored_token(k, g)
        tries == IsToken(token) /\ Truthy(token.refresh_token)
        R == _refresh_token(k, token, rresp, t0, sw, dw)
        k1 == IF tries THEN R.keyring ELSE k
        posts == IF tries THEN R.posts ELSE 0
        raised(err, opens, codes) ==
            [outcome |-> "raised", error |-> err, token |-> NoToken,
             keyring |-> k1, refresh_posts |-> posts, exchanges |-> codes,
             browser_opens |-> opens, stores |-> 0]
        new == SSOToken(xresp.body["access_token"],
                        Get(xresp.body, "refresh_token", None),
                        Get(xresp.body, "id_token", None),
                        t0 + Get(xresp.body, "expires_in", DefaultExpiresIn),
                        Get(xresp.body, "token_type", "Bearer"))
        S == _store_token(k1, new, xsw)
    IN  IF IsToken(token) /\ ~SSOToken_is_expired(token, t0)
        THEN [outcome |-> "returned", error |-> "", token |-> token,
              keyring |-> k, refresh_posts |-> 0, exchanges |-> <<>>,
              browser_opens |-> 0, stores |-> 0]
        ELSE IF tries /\ ~R.raised
        THEN [outcome |-> "returned", error |-> "", token |-> R.token,
              keyring |-> R.keyring, refresh_posts |-> R.posts,
              exchanges |-> <<>>, browser_opens |-> 0, stores |-> R.stores]
        ELSE IF how = "bind_raises"
        THEN raised("OSError", 0, <<>>)
        ELSE IF how = "browser_raises"
        THEN raised("webbrowser.Error", 1, <<>>)
        ELSE IF how = "thread_raises"
        THEN raised("RuntimeError", 1, <<>>)
        ELSE IF ~ClassHas("done")
        THEN raised("AttributeError", 1, <<>>)
        ELSE IF ~cb.done
        THEN raised("SSO login timed out", 1, <<>>)
        ELSE IF Truthy(cb.error)
        THEN raised("SSO login failed", 1, <<>>)
        ELSE IF ~Truthy(cb.auth_code) \/ ~Truthy(cb.state)
        THEN raised("Invalid callback response", 1, <<>>)
        ELSE IF cb.state # GeneratedState
        THEN raised("State mismatch - possible CSRF attack", 1, <<>>)
        ELSE IF xresp.status # 200 \/ "access_token" \notin DOMAIN xresp.body
        THEN raised("OAuthError", 1, <<cb.auth_code>>)
        ELSE IF S.raised
        THEN raised("KeyringError", 1, <<cb.auth_code>>)
        ELSE [outcome |-> "returned", error |-> "", token |-> new,
              keyring |-> S.keyring, refresh_posts |-> posts,
              exchanges |-> <<cb.auth_code>>, browser_opens |-> 1,
              stores |-> 1]

\* The ways the listener, the browser and the serving thread can start
\* where the login gets that far.
SsoStartOutcomes(g, rresp, sw) ==
    IF SSOAuth_login(keyring, g, now, rresp, sw, "ok", "bind_raises",
                     NoHandler, Rejected, "raises").outcome = "raised"
    THEN StartOutcomes ELSE {"started"}

\* sso.login().
SsoLogin ==
    /\ SsoIdle
    /\ \E g \in KeyringOutcomes :
       \E rresp \in SsoRefreshAnswers(g, now) :
       \E sw \in SsoStoreOutcomes(rresp) :
       \E dw \in SsoClearOutcomes(g, now, rresp, sw) :
       \E how \in SsoStartOutcomes(g, rresp, sw) :
       \E cb \in SsoCallbacks :
       \E xresp \in SsoExchangeAnswers :
       \E xsw \in SsoStoreOutcomes(xresp) :
         LET G == SSOAuth_login(keyring, g, now, rresp, sw, dw, how, cb,
                                xresp, xsw)
         IN  /\ keyring' = G.keyring
             /\ serial' = serial + G.stores
             /\ last' = [NoSsoCall EXCEPT
                            !.op = "login", !.outcome = G.outcome,
                            !.error = G.error, !.token = G.token,
                            !.before = keyring,
                            !.stored = _get_stored_token(keyring, g),
                            !.t0 = now, !.t1 = now,
                            !.refresh_posts = G.refresh_posts,
                            !.exchanges = G.exchanges,
                            !.browser_opens = G.browser_opens,
                            !.stores = G.stores]
    /\ ops' = ops + 1
    /\ UNCHANGED <<now, SsoVars>>

SsoTick ==
    /\ now < MaxTime
    /\ now' = now + 1
    /\ UNCHANGED <<serial, ops, last, keyring, SsoVars>>

\* An entry left in the keyring by an earlier session.
SsoStored ==
    {JsonFile(SSOToken_to_dict(SSOToken("at0", r, None, e, "Bearer"))) :
       r \in {None, "rt"}, e \in {0, 1, DefaultExpiresIn}}

SsoInit ==
    /\ now = 0
    /\ cacheDir = "ok"
    /\ cache = [e \in Envs |-> NoFile]
    /\ config \in Configs
    /\ serial = 0
    /\ ops = 0
    /\ client = NoClient
    /\ last = NoSsoCall
    /\ pc = "idle"
    /\ call = NoCall
    /\ listener = "none"
    /\ serving = FALSE
    /\ handler_instance = NoHandler
    /\ waiting_on = NoHandler
    /\ callbacks = 0
    /\ seen = {}
    /\ stray = FALSE
    /\ procs = Waiting
    /\ log = {}
    /\ probe = NoProbe
    /\ keyring \in {NoFile, Garbage} \cup SsoStored

SsoNext ==
    \/ SsoLogin
    \/ SsoGetToken
    \/ SsoGetStatus
    \/ SsoLogout
    \/ SsoTick

SsoSpec == SsoInit /\ [][SsoNext]_vars

----------------------------------------------------------------------------
(* The methods of a token, applied to one token at one clock reading *)

Times == 0 .. MaxExpiry

AuthTokens ==
    {AuthToken(a, e, tt, r, i, ia) :
       a \in {"at1", ""}, e \in Times, tt \in {"Bearer", "MAC"},
       r \in {None, "rt"}, i \in {None, "id"}, ia \in {NoTime, 0}}

SSOTokens ==
    {SSOToken(a, r, i, e, tt) :
       a \in {"at1", ""}, r \in {None, "rt"}, i \in {None, "id"},
       e \in Times, tt \in {"Bearer", "MAC"}}

\* The state that the methods of a token neither read nor write.
TokenVars ==
    <<now, cacheDir, cache, config, serial, ops, client, last, pc, call,
      PkceVars, procs, log>>

Drawn(class, t, time) ==
    [step |-> "drawn", class |-> class, token |-> t, time |-> time,
     expired |-> FALSE, back |-> NoToken, from |-> NoToken,
     resp |-> Rejected, n |-> 0]

\* t.is_expired with time.time() = probe.time.
ApplyIsExpired ==
    /\ probe.step = "drawn"
    /\ probe' = [probe EXCEPT
                   !.step = "is_expired",
                   !.expired = IF probe.class = "AuthToken"
                               THEN is_expired(probe.token, probe.time)
                               ELSE SSOToken_is_expired(probe.token, probe.time)]
    /\ UNCHANGED <<TokenVars, keyring>>

\* from_dict(t.to_dict()).
ApplyRoundTrip ==
    /\ probe.step = "drawn"
    /\ probe' = [probe EXCEPT
                   !.step = "round_trip",
                   !.back = IF probe.class = "AuthToken"
                            THEN from_dict(to_dict(probe.token))
                            ELSE SSOToken_from_dict(SSOToken_to_dict(probe.token))]
    /\ UNCHANGED <<TokenVars, keyring>>

\* A refresh of the token in hand at time.time() = probe.time: of the token
\* drawn, or of the token the refresh before gave.  _refresh_auth_token for
\* an AuthToken, SSOAuth._refresh_token (which stores the new token, or
\* clears the keyring) for an SSOToken.
ApplyRefresh ==
    /\ probe.step \in {"drawn", "refreshed"}
    /\ probe.n < MaxRefreshes
    /\ \E resp \in Responses(probe.n + 1), sw \in KeyringOutcomes :
         LET held == IF probe.step = "drawn" THEN probe.token ELSE probe.back
             A == _refresh_auth_token(held, config, resp, probe.time)
             S == _refresh_token(keyring, held, resp, probe.time, sw, "ok")
             R == IF probe.class = "AuthToken" THEN A ELSE S
         IN  /\ probe.class = "AuthToken" => sw = "ok"
             /\ probe' = [probe EXCEPT
                            !.step = IF R.raised THEN "refresh_failed"
                                     ELSE "refreshed",
                            !.back = R.token, !.from = held, !.resp = resp,
                            !.n = @ + 1]
             /\ keyring' = IF probe.class = "AuthToken" THEN keyring
                           ELSE S.keyring
    /\ UNCHANGED TokenVars

TokenInit ==
    /\ now = 0
    /\ cacheDir = "ok"
    /\ cache = [e \in Envs |-> NoFile]
    /\ config \in Configs
    /\ serial = 0
    /\ ops = 0
    /\ client = NoClient
    /\ last = NoCall
    /\ pc = "idle"
    /\ call = NoCall
    /\ listener = "none"
    /\ serving = FALSE
    /\ handler_instance = NoHandler
    /\ waiting_on = NoHandler
    /\ callbacks = 0
    /\ seen = {}
    /\ stray = FALSE
    /\ procs = Waiting
    /\ log = {}
    /\ \E time \in Times :
         \/ \E t \in AuthTokens : probe = Drawn("AuthToken", t, time)
         \/ \E t \in SSOTokens : probe = Drawn("SSOToken", t, time)
    /\ keyring = NoFile

TokenNext == ApplyIsExpired \/ ApplyRoundTrip \/ ApplyRefresh

TokenSpec == TokenInit /\ [][TokenNext]_vars

----------------------------------------------------------------------------
Init ==
    /\ now = 0
    /\ cacheDir \in {"ok", "uncreatable"}
    /\ cache \in [Envs -> {NoFile, Garbage, Incomplete}]
    /\ cacheDir = "uncreatable" => \A e \in Envs : cache[e] = NoFile
    /\ config \in Configs
    /\ serial = 0
    /\ ops = 0
    /\ client = NoClient
    /\ last = NoCall
    /\ pc = "idle"
    /\ call = NoCall
    /\ listener = "none"
    /\ serving = FALSE
    /\ handler_instance = NoHandler
    /\ waiting_on = NoHandler
    /\ callbacks = 0
    /\ seen = {}
    /\ stray = FALSE
    /\ procs = Waiting
    /\ log = {}
    /\ probe = NoProbe
    /\ keyring = NoFile

Next ==
    \/ \E env \in Envs, allow \in Allows, force \in BOOLEAN : GetToken(env, allow, force)
    \/ \E env \in Envs, allow \in Allows, force \in BOOLEAN :
          GetTokenPkce(env, allow, force)
    \/ ServeRequest
    \/ AcceptStray
    \/ StrayCloses
    \/ CheckHandler
    \/ WaitDone
    \/ WaitTimesOut
    \/ CheckError
    \/ CheckCode
    \/ CheckStateSet
    \/ CheckState
    \/ Exchange
    \/ Finally
    \/ \E env \in Envs : ClientInit(env)
    \/ \E env \in Envs : Logout(env)
    \/ Request
    \/ Tick

Spec == Init /\ [][Next]_vars

\* The thread that called get_token keeps running; nothing obliges a peer of
\* the listener to send or to close.
LoginNext ==
    \/ \E env \in Envs, force \in BOOLEAN : LoginCheck(env, force)
    \/ LoginAcquire
    \/ LoginAcquirePkce
    \/ ServeRequest
    \/ AcceptStray
    \/ StrayCloses
    \/ CheckHandler
    \/ WaitDone
    \/ WaitTimesOut
    \/ CheckError
    \/ CheckCode
    \/ CheckStateSet
    \/ CheckState
    \/ Exchange
    \/ Finally
    \/ Tick

LoginSpec == LoginInit /\ [][LoginNext]_vars

Caller ==
    \/ CheckHandler
    \/ WaitDone
    \/ WaitTimesOut
    \/ CheckError
    \/ CheckCode
    \/ CheckStateSet
    \/ CheckState
    \/ Exchange
    \/ Finally

LiveSpec == Spec /\ WF_vars(Caller)

----------------------------------------------------------------------------
(* Properties of AuthenticatedClient.request *)

Requested == last.op = "request"

Unauthorized == Response(401)

\* C1: one call of request makes at most two transport requests and at most
\* one refresh exchange; when the client holds a refresh token and the
\* transport answers 401 and then 200, the transport was asked exactly twice
\* and the call returns the second response.
C1_RetryOnce ==
    Requested =>
        /\ Len(last.answers) <= 2
        /\ last.refresh_posts <= 1
        /\ (/\ Truthy(last.held.refresh_token)
            /\ last.answers = <<Unauthorized, Response(200)>>)
           => /\ last.outcome = "returned"
              /\ last.response = Response(200)
              /\ last.refresh_posts = 1

C1_Witness ==
    /\ Requested
    /\ Truthy(last.held.refresh_token)
    /\ last.answers = <<Unauthorized, Response(200)>>
    /\ last.response = Response(200)

\* C2: when the client holds a refresh token and the transport answers 401 to
\* the first request and 401 again to the retry, the call raises an
\* authentication failure, having asked the transport exactly twice.
C2_SecondUnauthorizedRaises ==
    (/\ Requested
     /\ Truthy(last.held.refresh_token)
     /\ last.answers = <<Unauthorized, Unauthorized>>)
    => /\ last.outcome = "raised"
       /\ last.error = "Authentication failed and token refresh unsuccessful"

\* C7: when the transport answers 401, the client holds a refresh token and
\* the recovery fails (the refresh is refused, the write of the new token
\* raises or the retry raises), the cache file of the environment holds the
\* expired sentinel and the call raises an authentication failure.
C7_FailedRecoveryInvalidates ==
    (/\ Requested
     /\ Len(last.answers) >= 1
     /\ last.answers[1] = Unauthorized
     /\ Truthy(last.held.refresh_token)
     /\ last.outcome = "raised")
    => /\ cache[last.env] = JsonFile(to_dict(ExpiredSentinel(last.t0)))
       /\ last.error = "Authentication failed and token refresh unsuccessful"

\* C8: when the transport answers 401 and the client holds no refresh token,
\* the call raises an authentication failure at once: no refresh exchange and
\* no second transport request.
C8_NoRefreshTokenRaises ==
    (/\ Requested
     /\ Len(last.answers) >= 1
     /\ last.answers[1] = Unauthorized
     /\ ~Truthy(last.held.refresh_token))
    => /\ last.outcome = "raised"
       /\ last.error = "Authentication failed and no refresh token available"
       /\ last.refresh_posts = 0
       /\ last.answers = <<Unauthorized>>

C8_Witness ==
    /\ Requested
    /\ IsToken(last.held)
    /\ ~Truthy(last.held.refresh_token)
    /\ last.answers = <<Unauthorized>>
    /\ last.outcome = "raised"

----------------------------------------------------------------------------
(* Properties of get_token *)

GotToken == last.op = "get_token"

\* The token in the cache file of the environment when the call began.
Cached == from_dict(last.before.data)

\* C3: when the cache holds an expired token that carries a refresh token
\* and force_new is false, get_token makes exactly one refresh exchange and
\* no acquisition, persists the new token and returns it, and the token it
\* returns expires later than the time of the call.
C3_ExpiredTokenRefreshed ==
    (/\ GotToken
     /\ ~last.force
     /\ Decodes(last.before)
     /\ is_expired(Cached, last.t0)
     /\ Truthy(Cached.refresh_token))
    => /\ last.refresh_posts = 1
       /\ last.acquire_posts = 0
       /\ IsToken(last.token)
       /\ cache[last.env] = JsonFile(to_dict(last.token))
       /\ last.token.expires_at > last.t1

\* C4: when the cache holds a token that is not expired when get_token looks
\* at it and force_new is false, get_token returns that token unchanged: no
\* exchange with the token endpoint, no browser, no listener, no write, and
\* the cache file is as it was; a second call in succession returns the
\* same token.
C4_CachedTokenReturned ==
    (/\ GotToken
     /\ ~last.force
     /\ Decodes(last.before)
     /\ ~is_expired(Cached, last.t1))
    => /\ last.outcome = "returned"
       /\ last.token = Cached
       /\ last.refresh_posts = 0
       /\ last.acquire_posts = 0
       /\ last.browser_opens = 0
       /\ last.binds = 0
       /\ last.writes = 0
       /\ cache[last.env] = last.before

C4_Witness ==
    /\ GotToken
    /\ ops = 2
    /\ ~last.force
    /\ Decodes(last.before)
    /\ ~is_expired(Cached, last.t1)
    /\ last.token = Cached
    /\ last.refresh_posts + last.acquire_posts = 0

C6_GetTokenNeverRaises == GotToken => last.outcome = "returned"

----------------------------------------------------------------------------
(* Properties of the PKCE loopback flow *)

\* C9: the flow ends with "SSO login timed out" only after the caller has
\* waited the whole callback wait for a callback.
C9_TimeoutOnlyAfterWait ==
    (GotToken /\ last.error = "SSO login timed out")
    => last.waited = CallbackTimeout

\* C10: only the first request the listener serves counts: every field the
\* flow reads comes from the handler of the first request, and the code it
\* exchanges is the code of the first request.
C10_FirstCallbackOnly ==
    (GotToken /\ last.served >= 1)
    => /\ last.seen \subseteq {1}
       /\ last.exchanged \in {<<>>, <<Codes[1]>>}

\* C11: once the flow has bound its loopback listener, the listener is closed
\* when the flow returns, whichever way it ends: with a token, a timeout, a
\* refusal, an invalid callback, a state mismatch, a refused exchange, or an
\* exception while the browser is opened or the thread is started.
C11_ListenerClosed ==
    (GotToken /\ last.binds >= 1) => listener = "closed"

\* The flow has sent a code to the token endpoint.
Exchanged == GotToken /\ last.exchanged # <<>>

\* C12: a callback whose state differs from the state generated for the
\* login makes the flow fail with a state mismatch and no exchange with the
\* token endpoint: the code the flow exchanges is never the code of a
\* callback whose state differs from the generated one.
C12_StateMismatchNoExchange ==
    Exchanged =>
        ~(/\ Truthy(last.exchanged_from.state)
          /\ last.exchanged_from.state # GeneratedState)

\* C13: a callback that carries an error parameter makes the flow fail as
\* refused, whatever its code and state, with no exchange with the token
\* endpoint: the code the flow exchanges is never the code of a callback
\* that carried an error.
C13_ErrorNoExchange ==
    Exchanged => ~Truthy(last.exchanged_from.error)

\* C14: no operation blocks for ever: every PKCE login that has started
\* comes to an outcome and returns, the teardown of the listener included,
\* even while a stray connection is in flight on the listener.
C14_FlowReturns == InFlow ~> ~InFlow

----------------------------------------------------------------------------
(* Properties of the token cache *)

\* What load_cached_token gave the last get_token call.
LoadedByCall == load_cached_token(cacheDir, last.before, last.t0)

\* C15: when the cache file of the environment does not decode (it is not
\* JSON, or it is JSON without the required fields), load_cached_token
\* returns no token and raises nothing, and get_token goes on to acquire a
\* new token with the configured grant, without a refresh exchange.
C15_UndecodableRecord ==
    (/\ GotToken
     /\ ~last.force
     /\ last.before \in {Garbage, Incomplete})
    => /\ LoadedByCall = [raised |-> FALSE, token |-> NoToken]
       /\ last.outcome = "returned"
       /\ last.acquiring
       /\ last.refresh_posts = 0
       /\ (/\ GrantType(config) \in {"client_credentials", "password"}
           /\ HasKeys(config, GrantKeys(GrantType(config))))
          => last.acquire_posts = 1

C15_Witness ==
    /\ GotToken
    /\ ~last.force
    /\ last.before = Incomplete
    /\ last.acquiring
    /\ last.acquire_posts = 1
    /\ IsToken(last.token)

\* C16: the store does not look at expiry: whenever the cache file decodes,
\* load_cached_token returns the token it holds, expired or not.
C16_LoadIgnoresExpiry ==
    (/\ GotToken
     /\ ~last.force
     /\ Decodes(last.before))
    => LoadedByCall = [raised |-> FALSE, token |-> Cached]

\* C17: after save_token(env, t), load_cached_token(env) returns a token with
\* t's access token when t is not expired at the time of the load, and no
\* token when t is expired then.
C17_SaveThenLoad ==
    (/\ GotToken
     /\ ~last.force
     /\ Decodes(last.before))
    => /\ ~LoadedByCall.raised
       /\ IF last.t0 >= last.before.data.expires_at
          THEN LoadedByCall.token = NoToken
          ELSE /\ IsToken(LoadedByCall.token)
               /\ LoadedByCall.token.access_token = last.before.data.access_token

C17_Witness ==
    /\ GotToken
    /\ ~last.force
    /\ Decodes(last.before)
    /\ last.before.data.access_token # ""
    /\ last.t0 = last.before.data.expires_at
    /\ LoadedByCall.token = NoToken

\* A token that carries the sentinel's empty access token.
Usable(t) == IsToken(t) => t.access_token # ""

\* C18: a logout that succeeds leaves in the cache file of the environment
\* the sentinel (empty access_token, expires_at 0), and the sentinel is never
\* handed out: no load_cached_token and no get_token returns a token whose
\* access token is empty.
C18_SentinelNeverUsable ==
    /\ (last.op = "logout" /\ last.outcome = "returned")
       => /\ Decodes(cache[last.env])
          /\ cache[last.env].data.access_token = ""
          /\ cache[last.env].data.expires_at = 0
    /\ (last.op \in {"get_token", "init"}) => Usable(last.token)
    /\ \A e \in Envs : Usable(load_cached_token(cacheDir, cache[e], now).token)

C18_Witness ==
    /\ GotToken
    /\ ~last.force
    /\ Decodes(last.before)
    /\ last.before.data.access_token = ""
    /\ LoadedByCall.token = NoToken
    /\ last.acquiring

----------------------------------------------------------------------------
(* Properties of acquisition *)

\* C19: a token built from a response of the token endpoint that gave no
\* expires_in is stale at once: when it is in the cache, get_token does not
\* return it as the valid cached token without a new exchange.
C19_NoExpiryIsStale ==
    (/\ GotToken
     /\ ~last.force
     /\ Decodes(last.before)
     /\ Cached.issued_at # NoTime
     /\ Cached.expires_at = Cached.issued_at + DefaultExpiresIn)
    => ~(/\ last.token = Cached
         /\ last.refresh_posts + last.acquire_posts = 0)

SupportedGrants == {"client_credentials", "password", "authorization_code_pkce"}

\* C20: acquire_token with a grant type outside the supported ones fails
\* before anything reaches the network: no POST to the token endpoint, no
\* browser, no listener, and no token.
C20_UnsupportedGrantFailsFast ==
    (/\ GotToken
     /\ last.acquiring
     /\ GrantType(config) \notin SupportedGrants)
    => /\ \A resp \in Responses(1) :
            acquire_token(config, GrantType(config), resp, last.t1)
              = [raised |-> TRUE, posts |-> 0, token |-> NoToken]
       /\ last.token = NoToken
       /\ last.acquire_posts = 0
       /\ last.browser_opens = 0
       /\ last.binds = 0
       /\ last.writes = 0

C20_Witness ==
    /\ GotToken
    /\ last.acquiring
    /\ GrantType(config) = "implicit"
    /\ last.token = NoToken
    /\ last.acquire_posts = 0

----------------------------------------------------------------------------
(* Properties of refresh inside get_token *)

\* C21: when get_token attempts a refresh exchange and it fails, the error
\* does not reach the caller: get_token goes on to acquire a new token with
\* the configured grant, and what it returns is what that acquisition gave:
\* the token it issued, saved in the cache, or no token.
C21_RefreshFailureFallsThrough ==
    (GotToken /\ last.refresh_failed)
    => /\ last.outcome = "returned"
       /\ last.acquiring
       /\ IsToken(last.token)
          => /\ last.acquire_posts = 1
             /\ last.writes = 1
             /\ cache[last.env] = JsonFile(to_dict(last.token))
       /\ (/\ GrantType(config) \in {"client_credentials", "password"}
           /\ HasKeys(config, GrantKeys(GrantType(config))))
          => last.acquire_posts = 1

C21_Witness ==
    /\ GotToken
    /\ last.refresh_failed
    /\ last.refresh_posts = 1
    /\ last.acquire_posts = 1
    /\ IsToken(last.token)

----------------------------------------------------------------------------
(* Properties of two processes on one environment *)

BothDone == \A p \in Procs : procs.pc[p] = "done"

\* C22: two processes get a token for the same environment with no lock
\* between them: whatever the interleaving, both obtain a token, and once
\* both are done the cache file holds exactly the record of the save that
\* came last, whole.
C22_LaterSaveWins ==
    BothDone
    => /\ \A p \in Procs : IsToken(procs.token[p])
       /\ procs.saves # <<>>
          => cache[RaceEnv]
               = JsonFile(to_dict(procs.token[procs.saves[Len(procs.saves)]]))

----------------------------------------------------------------------------
(* Properties of save_token *)

\* The record of the environment of the last call is that of a token the
\* call can have handed to save_token: the one it returned, the one its
\* client holds, or the sentinel of an invalidation.
HoldsSaved ==
    \/ IsToken(last.token) /\ cache[last.env] = JsonFile(to_dict(last.token))
    \/ /\ client.constructed
       /\ cache[last.env] = JsonFile(to_dict(client.token))
    \/ cache[last.env] = JsonFile(to_dict(ExpiredSentinel(now)))

\* C23: there is one record per environment and a save replaces it whole:
\* a step that changes the record of an environment leaves there exactly the
\* fields of the token saved, nothing of the record before, and leaves the
\* record of every other environment as it was.
C23_SaveOverwritesWholesale ==
    [][\A e \in Envs :
         cache'[e] # cache[e]
         => /\ e = last'.env
            /\ HoldsSaved'
            /\ \A o \in Envs \ {e} : cache'[o] = cache[o]]_vars

C23_Witness ==
    /\ last.op = "get_token" /\ last.writes = 1
    /\ last.before = Incomplete
    /\ last.token.refresh_token = None
    /\ cache[last.env] = JsonFile(to_dict(last.token))
    /\ \E o \in Envs \ {last.env} : cache[o].kind = "json"

----------------------------------------------------------------------------
(* Properties of the client's header *)

\* C24: once the client is constructed, and so at the start of every request
\* it sends, its Authorization header is "<token_type> <access_token>" of the
\* token it holds; a retry after a successful refresh carries the header of
\* the refreshed token.
C24_HeaderFollowsToken ==
    /\ client.constructed => client.header = Authorization(client.token)
    /\ (Requested /\ Len(last.answers) = 2)
       => client.header = Authorization(client.token)

----------------------------------------------------------------------------
(* Properties of the log *)

\* C25: during and after a PKCE login neither the code verifier nor the
\* anti-CSRF state appears in any log record, the request log of the callback
\* listener included.
C25_SecretsNeverLogged == log \cap {CodeVerifier, GeneratedState} = {}

----------------------------------------------------------------------------
(* Properties of the token's methods *)

\* C26: for every token and every clock reading, is_expired is true exactly
\* when the reading is at or past expires_at, so that a token is expired at
\* the boundary itself; a token with expires_at = 0 is expired at every
\* reading.
C26_ExpiredFromBoundary ==
    probe.step = "is_expired"
    => /\ probe.expired <=> probe.time >= probe.token.expires_at
       /\ probe.token.expires_at = 0 => probe.expired

C26_Witness ==
    /\ probe.step = "is_expired"
    /\ probe.class = "AuthToken"
    /\ probe.token.expires_at > 0
    /\ probe.time = probe.token.expires_at
    /\ probe.expired

\* C27: for every AuthToken and every SSOToken, absent refresh_token,
\* id_token and issued_at included, from_dict(to_dict(t)) is equal to t in
\* every field.
C27_RoundTrip ==
    probe.step = "round_trip"
    => /\ DOMAIN probe.back = DOMAIN probe.token
       /\ \A f \in DOMAIN probe.token : probe.back[f] = probe.token[f]

C27_Witness ==
    /\ probe.step = "round_trip"
    /\ probe.class = "AuthToken"
    /\ probe.token.refresh_token = None
    /\ probe.token.id_token = None
    /\ probe.token.issued_at = NoTime
    /\ probe.back = probe.token

----------------------------------------------------------------------------
(* Properties of the login command *)

\* C28: `login --force` authenticates anew even when a valid token is
\* cached for the environment: it makes a new acquisition, and the cache
\* afterwards holds the token acquired, not the one it held.
C28_ForceReauthenticates ==
    (/\ last.op = LoginOp(TRUE)
     /\ Decodes(last.before)
     /\ ~is_expired(Cached, last.t1))
    => /\ last.acquiring
       /\ IsToken(last.token)
          => /\ last.token # Cached
             /\ cache[last.env] = JsonFile(to_dict(last.token))

----------------------------------------------------------------------------
(* Properties of SSOAuth *)

\* C29: get_status reports logged_in false when no token is stored and when
\* the stored token is expired and has no refresh token; it reports
\* logged_in true, with the expires_at of the token, when the stored token
\* is not expired.
C29_StatusFollowsToken ==
    last.op = "get_status"
    => /\ ~IsToken(last.stored) => last.status = [logged_in |-> FALSE]
       /\ (/\ IsToken(last.stored)
           /\ SSOToken_is_expired(last.stored, last.t0)
           /\ ~Truthy(last.stored.refresh_token))
          => ~last.status.logged_in
       /\ (/\ IsToken(last.stored)
           /\ ~SSOToken_is_expired(last.stored, last.t1))
          => /\ last.status.logged_in
             /\ last.status.expires_at = last.stored.expires_at

C29_Witness ==
    /\ last.op = "get_status"
    /\ IsToken(last.stored)
    /\ ~SSOToken_is_expired(last.stored, last.t1)
    /\ last.t1 > 0
    /\ last.status.logged_in
    /\ last.status.expires_at = last.stored.expires_at

\* What the browser, the user, the issuer and the machine can refuse to a
\* login.
Refusals ==
    {"OSError", "webbrowser.Error", "RuntimeError", "SSO login timed out",
     "SSO login failed", "Invalid callback response",
     "State mismatch - possible CSRF attack", "OAuthError", "KeyringError"}

\* C30: with no token in the keyring, a login that nothing refuses opens the
\* browser once, waits for the callback, makes one authorization_code
\* exchange with the code of the callback, stores the issued token once and
\* returns it.
C30_LoginFlow ==
    (/\ last.op = "login"
     /\ last.before = NoFile
     /\ last.error \notin Refusals)
    => /\ last.outcome = "returned"
       /\ last.browser_opens = 1
       /\ Len(last.exchanges) = 1
       /\ last.stores = 1
       /\ IsToken(last.token)
       /\ keyring = JsonFile(SSOToken_to_dict(last.token))

----------------------------------------------------------------------------
(* Further properties of AuthenticatedClient.request *)

\* The call sent a retry and returned its response.
Recovered == Requested /\ last.outcome = "returned" /\ Len(last.answers) = 2

\* C31: after a 401 and a successful refresh the new token is written to the
\* cache of the environment before the retry is sent: whenever request
\* returns after a recovery, the cache record of the environment is that of
\* the token the client holds.
C31_PersistedBeforeRetry ==
    Recovered
    => /\ last.writes = 1
       /\ cache[last.env] = JsonFile(to_dict(client.token))

C31_Witness ==
    /\ Recovered
    /\ client.token # last.held
    /\ last.before = JsonFile(to_dict(last.held))
    /\ cache[last.env] = JsonFile(to_dict(client.token))

\* The call met a 401 with a refresh token in hand and raised.
FailedRecovery ==
    /\ Requested
    /\ Len(last.answers) >= 1
    /\ last.answers[1] = Unauthorized
    /\ Truthy(last.held.refresh_token)
    /\ last.outcome = "raised"

\* C32: a failed 401 recovery changes the cache record alone: the token the
\* client holds and its Authorization header are what they were before the
\* call, so that a later request goes out with the old header and a later
\* 401 refreshes with the old refresh token.
C32_FailedRecoveryKeepsClient ==
    FailedRecovery
    => /\ client.token = last.held
       /\ client.header = Authorization(last.held)

----------------------------------------------------------------------------
(* Further properties of get_token *)

\* get_token returned None.
ReturnedAbsent ==
    GotToken /\ last.outcome = "returned" /\ ~IsToken(last.token)

----------------------------------------------------------------------------
(* Properties of a refresh *)

----------------------------------------------------------------------------
(* Properties of logout *)

\* The cache file of the environment held the record that logout writes
\* when the call began.
AfterLogout ==
    \E t \in 0 .. MaxTime : last.before = JsonFile(to_dict(ExpiredSentinel(t)))

----------------------------------------------------------------------------
(* Properties of the client's construction *)

\* C36: constructing the client never starts an interactive login: under the
\* PKCE grant and with no cached token that is not expired, the constructor
\* raises "Failed to acquire initial token", opens no browser and binds no
\* listener.
C36_ConstructorNeverInteractive ==
    (/\ last.op = "init"
     /\ GrantType(config) = "authorization_code_pkce"
     /\ ~(Decodes(last.before) /\ ~is_expired(Cached, last.t0)))
    => /\ last.outcome = "raised"
       /\ last.error = "Failed to acquire initial token"
       /\ ~client.constructed
       /\ last.browser_opens = 0
       /\ last.binds = 0
       /\ pc = "idle"

----------------------------------------------------------------------------
(* Properties of the caller's reads of the callback *)

\* The caller has read the error of a callback at line 197 and has still to
\* read the code or the state, at lines 199, 201 or 213.
Validating == pc \in {"check_code", "check_state_set", "check_state", "exchange"}

\* C37: the error, code and state the waiting caller checks and the code it
\* sends in the token exchange all come from one and the same callback
\* request, under every interleaving: while the caller is between its read of
\* the error and its read of the code it sends, the handler it reads from is
\* not replaced by the handler of a further request.
C37_OneCallbackRead ==
    [][Validating => handler_instance' = handler_instance]_vars

----------------------------------------------------------------------------
(* Properties of SSOAuth's failed refresh *)

\* The last call of get_token or login asked the issuer for a refresh and
\* the refresh failed: lines 274-277, met from line 291 or line 160.
RefreshFailed ==
    /\ last.op \in {"get_token", "login"}
    /\ last.refresh_posts = 1
    /\ ~(last.outcome = "returned" /\ IsToken(last.token)
         /\ last.browser_opens = 0)

\* C38: a failed refresh deletes the stored token from the keyring: after
\* get_token or login has met a refresh failure and stored no new token, the
\* keyring holds no token; get_token then gave None, and gives None as long
\* as the keyring holds nothing; login went on to the interactive flow, as far
\* as the browser unless its listener could not be bound.
C38_FailedRefreshClears ==
    /\ (RefreshFailed /\ last.stores = 0) => keyring = NoFile
    /\ (RefreshFailed /\ last.op = "get_token") => ~IsToken(last.token)
    /\ (last.op = "get_token" /\ last.before = NoFile) => ~IsToken(last.token)
    /\ (RefreshFailed /\ last.op = "login")
       => (last.browser_opens = 1 \/ last.error = "OSError")

----------------------------------------------------------------------------
(* Properties of the token SSOAuth.get_token returns *)

\* The stored token is expired and has no refresh token: line 289 is false
\* and line 296 returns it.
ExpiredUnrefreshable ==
    /\ IsToken(last.stored)
    /\ SSOToken_is_expired(last.stored, last.t0)
    /\ ~Truthy(last.stored.refresh_token)

\* C39: get_token returns the stored token as is when it is expired and has
\* no refresh token, and returns None only when nothing is stored in the
\* keyring or a refresh fails.
C39_ReturnsStoredAsIs ==
    last.op = "get_token"
    => /\ ExpiredUnrefreshable
          => (last.token = last.stored /\ last.refresh_posts = 0)
       /\ ~IsToken(last.token) => (last.before = NoFile \/ RefreshFailed)

\* C39, with the cases of None made exact: get_token returns the stored token
\* as is when it is expired and has no refresh token, without asking the
\* issuer and without touching the keyring, and returns None only when no
\* token can be read from the keyring (no entry, an entry that does not
\* decode, a backend that raises) or a refresh fails.
C39_ReturnsReadableAsIs ==
    last.op = "get_token"
    => /\ ExpiredUnrefreshable
          => /\ last.token = last.stored
             /\ last.refresh_posts = 0
             /\ keyring = last.before
       /\ ~IsToken(last.token) => (~IsToken(last.stored) \/ RefreshFailed)

\* get_token has returned a token that was expired when it returned it.
C39_Witness ==
    /\ last.op = "get_token"
    /\ ExpiredUnrefreshable
    /\ IsToken(last.token)
    /\ SSOToken_is_expired(last.token, last.t0)
    /\ last.token = last.stored

====
